---- MODULE Spec2Model ----
(***************************************************************************)
(* Recurrence pattern engine of the task planner (src/lib/recurring-utils  *)
(* .ts): parseRecurringPattern, validateRecurringPattern,                  *)
(* getNextOccurrence, isTaskActive, getRecurrenceSummary; and the default  *)
(* flag of the List table under the list routes (SpecLists).               *)
(*                                                                         *)
(* The functions are pure, so every specification draws the inputs in its  *)
(* initial states and has one action per exported function, which applies  *)
(* the function to the inputs of the state and stores what it returned (or *)
(* that it raised) in ret.                                                 *)
(*                                                                         *)
(* JavaScript values are tagged records:                                   *)
(*   [k |-> "undefined"]            undefined / an absent property         *)
(*   [k |-> "null"]                 null                                   *)
(*   [k |-> "num", n |-> i]         the integer i                          *)
(*   [k |-> "frac"]                 the non-integer number 1.5             *)
(*   [k |-> "nan"]                  NaN                                    *)
(*   [k |-> "bool", b |-> b]        true / false                           *)
(*   [k |-> "str", s |-> t]         a string that is not JSON text         *)
(*   [k |-> "str", ymd |-> <<y,m,d>>]  the date-only ISO string yyyy-mm-dd *)
(*   [k |-> "str", json |-> v]      the string that is the JSON text of v  *)
(*   [k |-> "arr", a |-> seq]       an array                               *)
(*   [k |-> "obj", type, interval, daysOfWeek, dayOfMonth, month, endDate] *)
(*                                  an object; an absent property holds    *)
(*                                  undefined                              *)
(*   [k |-> "date", t |-> i]        a Date whose time value is tick i      *)
(*   [k |-> "date", invalid |-> TRUE]  an Invalid Date (time value NaN)    *)
(*   [k |-> "throw"]                not a value: the call raised           *)
(***************************************************************************)
EXTENDS Integers, Sequences, FiniteSets, TLC

VARIABLES
    raw,    \* the argument of parseRecurringPattern / validateRecurringPattern
    task,   \* the Task record: isRecurring, date, recurringPattern
    tz,     \* the runtime's time zone: local time = UTC + tz ticks
    now,    \* the clock: the tick new Date() returns
    op,     \* the function or request handler applied last ("init" before any)
    ret,    \* what it returned, or Throw; the status of the response
    lists,  \* the List table: lists[id] is the row of the list id
    request \* the request handled last: its list id and validated body

vars == <<raw, task, tz, now, op, ret, lists, request>>

(***************************************************************************)
(* JavaScript values                                                       *)
(***************************************************************************)
Undefined == [k |-> "undefined"]
Null == [k |-> "null"]
NaN == [k |-> "nan"]
Frac == [k |-> "frac"]
Throw == [k |-> "throw"]
Num(n) == [k |-> "num", n |-> n]
Bool(b) == [k |-> "bool", b |-> b]
Str(s) == [k |-> "str", s |-> s]
IsoDate(y, m, d) == [k |-> "str", ymd |-> <<y, m, d>>]
JsonText(v) == [k |-> "str", json |-> v]
Arr(a) == [k |-> "arr", a |-> a]
Obj(type, interval, daysOfWeek, dayOfMonth, month, endDate) ==
    [k |-> "obj", type |-> type, interval |-> interval, daysOfWeek |-> daysOfWeek,
     dayOfMonth |-> dayOfMonth, month |-> month, endDate |-> endDate]

IsPlainText(v) == v.k = "str" /\ "s" \in DOMAIN v
IsJsonText(v) == v.k = "str" /\ "json" \in DOMAIN v
IsIsoDate(v) == v.k = "str" /\ "ymd" \in DOMAIN v

\* typeof v
TypeOf(v) ==
    CASE v.k \in {"obj", "arr", "null", "date"} -> "object"
      [] v.k \in {"num", "frac", "nan"} -> "number"
      [] v.k = "str" -> "string"
      [] v.k = "bool" -> "boolean"
      [] OTHER -> "undefined"

\* ToBoolean(v): what `if (v)` and `v || w` test
Truthy(v) ==
    CASE v.k \in {"undefined", "null", "nan"} -> FALSE
      [] v.k = "num" -> v.n # 0
      [] v.k = "bool" -> v.b
      [] IsPlainText(v) -> v.s # ""
      [] OTHER -> TRUE

\* v.f: undefined for a property the value does not have; a TypeError on
\* null and undefined
HasProps(v) == v.k \notin {"null", "undefined"}
Get(v, f) == IF v.k = "obj" THEN v[f] ELSE Undefined

\* ToNumber(v), as Math.max and Math.min apply it to their arguments (the
\* texts modelled are the empty string and words, none a numeric literal)
ToNumber(v) ==
    CASE v.k \in {"num", "frac", "nan"} -> v
      [] v.k = "null" -> Num(0)
      [] v.k = "bool" -> Num(IF v.b THEN 1 ELSE 0)
      [] IsPlainText(v) -> IF v.s = "" THEN Num(0) ELSE NaN
      [] v.k = "arr" -> IF Len(v.a) = 0 THEN Num(0) ELSE NaN
      [] OTHER -> NaN

\* a < b on numbers that are not NaN (Frac is 1.5)
NumLess(a, b) ==
    CASE a.k = "num" /\ b.k = "num" -> a.n < b.n
      [] a.k = "frac" /\ b.k = "num" -> 2 <= b.n
      [] a.k = "num" /\ b.k = "frac" -> a.n <= 1
      [] OTHER -> FALSE

MathMax(x, y) ==
    LET a == ToNumber(x)
        b == ToNumber(y)
    IN  IF a.k = "nan" \/ b.k = "nan" THEN NaN ELSE IF NumLess(a, b) THEN b ELSE a

MathMin(x, y) ==
    LET a == ToNumber(x)
        b == ToNumber(y)
    IN  IF a.k = "nan" \/ b.k = "nan" THEN NaN ELSE IF NumLess(b, a) THEN b ELSE a

\* Array.prototype.filter with the callback of line 45
RECURSIVE FilterValidDays(_)
FilterValidDays(a) ==
    IF Len(a) = 0 THEN <<>>
    ELSE LET d == Head(a)
             keep == d.k = "num" /\ d.n >= 0 /\ d.n <= 6
         IN  (IF keep THEN <<d>> ELSE <<>>) \o FilterValidDays(Tail(a))

\* Array.prototype.sort with the comparator a - b of line 46 (a stable sort)
RECURSIVE InsertAsc(_, _)
InsertAsc(d, a) ==
    IF Len(a) = 0 THEN <<d>>
    ELSE IF d.n < Head(a).n THEN <<d>> \o a
    ELSE <<Head(a)>> \o InsertAsc(d, Tail(a))

RECURSIVE SortAsc(_)
SortAsc(a) ==
    IF Len(a) = 0 THEN <<>>
    ELSE InsertAsc(a[Len(a)], SortAsc(SubSeq(a, 1, Len(a) - 1)))

(***************************************************************************)
(* Dates.  A Date holds a time value, here a count of ticks since          *)
(* 1970-01-01T00:00Z with TicksPerDay ticks to the day; its getters and    *)
(* setters work on local time, which is UTC + tz ticks (a zone with a      *)
(* fixed offset).                                                          *)
(***************************************************************************)
TicksPerDay == 4

InvalidDate == [k |-> "date", invalid |-> TRUE]
DateAt(t) == [k |-> "date", t |-> t]
IsDate(v) == v.k = "date" /\ "t" \in DOMAIN v

\* days from 1970-01-01 to the civil date y-m-d (m in 1..12); d may lie
\* outside the month, as in ECMAScript's MakeDay
DaysFromCivil(y, m, d) ==
    LET yy == IF m <= 2 THEN y - 1 ELSE y
        era == yy \div 400
        yoe == yy - era * 400
        mp == IF m > 2 THEN m - 3 ELSE m + 9
        doy == (153 * mp + 2) \div 5 + d - 1
        doe == yoe * 365 + yoe \div 4 - yoe \div 100 + doy
    IN  era * 146097 + doe - 719468

\* the civil date <<y, m, d>> of day number z
CivilFromDays(z) ==
    LET zz == z + 719468
        era == zz \div 146097
        doe == zz - era * 146097
        yoe == (doe - doe \div 1460 + doe \div 36524 - doe \div 146096) \div 365
        doy == doe - (365 * yoe + yoe \div 4 - yoe \div 100)
        mp == (5 * doy + 2) \div 153
        d == doy - (153 * mp + 2) \div 5 + 1
        m == IF mp < 10 THEN mp + 3 ELSE mp - 9
    IN  <<IF m <= 2 THEN yoe + era * 400 + 1 ELSE yoe + era * 400, m, d>>

\* MakeDay(year, month, date): month is 0-based and may lie outside 0..11
MakeDay(y, m0, d) == DaysFromCivil(y + m0 \div 12, (m0 % 12) + 1, d)

LocalDay(t, z) == (t + z) \div TicksPerDay
TimeInDay(t, z) == (t + z) % TicksPerDay
FromLocal(day, tod, z) == day * TicksPerDay + tod - z

\* a copy that keeps the calendar day of a Date and drops its time of day
NewDate_DayOnly(v) ==
    CASE v.k = "date" ->
             IF "t" \in DOMAIN v THEN DateAt((v.t \div TicksPerDay) * TicksPerDay) ELSE v
      [] IsIsoDate(v) -> DateAt(DaysFromCivil(v.ymd[1], v.ymd[2], v.ymd[3]) * TicksPerDay)
      [] v.k = "num" -> DateAt(v.n)
      [] v.k = "null" -> DateAt(0)
      [] OTHER -> InvalidDate

\* new Date(v) for the values a pattern's endDate and a task's date take:
\* a Date is copied, a date-only ISO string is midnight UTC of that date,
\* any other text does not parse
NewDate(v) ==
    CASE v.k = "date" -> v
      [] IsIsoDate(v) -> DateAt(DaysFromCivil(v.ymd[1], v.ymd[2], v.ymd[3]) * TicksPerDay)
      [] v.k = "num" -> DateAt(v.n)
      [] v.k = "null" -> DateAt(0)
      [] OTHER -> InvalidDate

(***************************************************************************)
(* validateRecurringPattern, one operator per field                        *)
(***************************************************************************)
validTypes == {"daily", "weekly", "weekday", "monthly", "yearly", "custom"}

\* the type taken as stored, with no test against validTypes
ValidatedType_Unchecked(pattern) == Get(pattern, "type")

\* any string taken as a type
ValidatedType_AnyString(pattern) ==
    LET t == Get(pattern, "type")
    IN  IF IsPlainText(t) THEN t ELSE Str("daily")

\* line 34
ValidatedType(pattern) ==
    LET t == Get(pattern, "type")
    IN  IF IsPlainText(t) /\ t.s \in validTypes THEN t ELSE Str("daily")

\* the interval defaulted but not raised to 1
ValidatedInterval_NoClamp(pattern) ==
    LET i == Get(pattern, "interval")
    IN  IF Truthy(i) THEN ToNumber(i) ELSE Num(1)

\* line 35
ValidatedInterval(pattern) ==
    LET i == Get(pattern, "interval")
    IN  MathMax(Num(1), IF Truthy(i) THEN i ELSE Num(1))

\* lines 43-51: Undefined when the property is not set on the result;
\* Throw when pattern.daysOfWeek is truthy and has no filter method
ValidatedDaysOfWeek(pattern) ==
    LET ds == Get(pattern, "daysOfWeek")
    IN  IF ~Truthy(ds) THEN Undefined
        ELSE IF ds.k # "arr" THEN Throw
        ELSE LET validDays == SortAsc(FilterValidDays(ds.a))
             IN  IF Len(validDays) > 0 THEN Arr(validDays) ELSE Undefined

\* lines 54-57
ValidatedDayOfMonth(pattern) ==
    LET d == Get(pattern, "dayOfMonth")
    IN  IF Truthy(d) THEN MathMax(Num(1), MathMin(Num(31), d)) ELSE Undefined

\* lines 60-63
ValidatedMonth(pattern) ==
    LET m == Get(pattern, "month")
    IN  IF Truthy(m) THEN MathMax(Num(1), MathMin(Num(12), m)) ELSE Undefined

\* lines 66-71
ValidatedEndDate(pattern) ==
    LET e == Get(pattern, "endDate")
    IN  IF Truthy(e) /\ IsDate(NewDate(e)) THEN e ELSE Undefined

validateRecurringPattern(pattern) ==
    IF ~HasProps(pattern) THEN Throw
    ELSE IF ValidatedDaysOfWeek(pattern) = Throw THEN Throw
    ELSE Obj(ValidatedType(pattern), ValidatedInterval(pattern),
             ValidatedDaysOfWeek(pattern), ValidatedDayOfMonth(pattern),
             ValidatedMonth(pattern), ValidatedEndDate(pattern))

(***************************************************************************)
(* parseRecurringPattern                                                   *)
(***************************************************************************)
\* JSON.parse(text): the value the text encodes, Throw (a SyntaxError) for
\* text that is not JSON
JsonParse(text) == IF IsJsonText(text) THEN text.json ELSE Throw

\* lines 24-27: the whole string as the type, interval 1
LegacyPattern(pattern) ==
    Obj(pattern, Num(1), Undefined, Undefined, Undefined, Undefined)

parseRecurringPattern(pattern) ==
    IF TypeOf(pattern) = "object" THEN validateRecurringPattern(pattern)
    ELSE LET parsed == JsonParse(pattern)
             validated == IF parsed = Throw THEN Throw
                          ELSE validateRecurringPattern(parsed)
         IN  IF validated # Throw THEN validated
             ELSE validateRecurringPattern(LegacyPattern(pattern))

(***************************************************************************)
(* Date getters and setters (local time in the zone z)                     *)
(***************************************************************************)
LocalCivil(date, z) == CivilFromDays(LocalDay(date.t, z))

GetFullYear(date, z) == IF IsDate(date) THEN Num(LocalCivil(date, z)[1]) ELSE NaN
GetMonth(date, z) == IF IsDate(date) THEN Num(LocalCivil(date, z)[2] - 1) ELSE NaN
GetDate(date, z) == IF IsDate(date) THEN Num(LocalCivil(date, z)[3]) ELSE NaN
\* 1970-01-01 was a Thursday (4)
GetDay(date, z) == IF IsDate(date) THEN Num((LocalDay(date.t, z) + 4) % 7) ELSE NaN

\* a + b and a * b on integers and NaN
NumAdd(a, b) == IF a.k = "num" /\ b.k = "num" THEN Num(a.n + b.n) ELSE NaN
NumMul(a, b) == IF a.k = "num" /\ b.k = "num" THEN Num(a.n * b.n) ELSE NaN

\* a setDate that wraps the day inside a 31-day month and never carries into
\* the next month
SetDate_WrapInMonth(date, n, z) ==
    IF ~IsDate(date) \/ n.k # "num" THEN InvalidDate
    ELSE LET c == CivilFromDays(LocalDay(date.t, z))
         IN  DateAt(FromLocal(MakeDay(c[1], c[2] - 1, ((n.n - 1) % 31) + 1),
                              TimeInDay(date.t, z), z))

\* date.setDate(n): day n of the date's month, counting on into the next
\* months (or back) when n is outside the month; the time of day is kept
SetDate(date, n, z) ==
    IF ~IsDate(date) \/ n.k # "num" THEN InvalidDate
    ELSE LET c == LocalCivil(date, z)
         IN  DateAt(FromLocal(MakeDay(c[1], c[2] - 1, n.n), TimeInDay(date.t, z), z))

\* date.setMonth(m): month m (0-based) of the date's year with the date's day
\* of month, which overflows into the next month when m is shorter
SetMonth(date, m, z) ==
    IF ~IsDate(date) \/ m.k # "num" THEN InvalidDate
    ELSE LET c == LocalCivil(date, z)
         IN  DateAt(FromLocal(MakeDay(c[1], m.n, c[3]), TimeInDay(date.t, z), z))

\* date.setFullYear(y)
SetFullYear(date, y, z) ==
    IF ~IsDate(date) \/ y.k # "num" THEN InvalidDate
    ELSE LET c == LocalCivil(date, z)
         IN  DateAt(FromLocal(MakeDay(y.n, c[2] - 1, c[3]), TimeInDay(date.t, z), z))

\* date.setHours(0, 0, 0, 0): local midnight of the date's local day
SetHoursZero(date, z) ==
    IF ~IsDate(date) THEN InvalidDate
    ELSE DateAt(FromLocal(LocalDay(date.t, z), 0, z))

\* a > b and a <= b on Dates: comparisons of the time values, false when
\* either is NaN
DateGreater(a, b) == IsDate(a) /\ IsDate(b) /\ a.t > b.t
DateLessEq(a, b) == IsDate(a) /\ IsDate(b) /\ a.t <= b.t

(***************************************************************************)
(* getNextOccurrence and its helpers                                       *)
(***************************************************************************)
\* the entries of a validated daysOfWeek, as a set
DaySet(daysOfWeek) == {daysOfWeek.a[i].n : i \in 1..Len(daysOfWeek.a)}

\* pattern.daysOfWeek && pattern.daysOfWeek.length > 0
HasDaysOfWeek(pattern) ==
    Truthy(pattern.daysOfWeek) /\ Len(pattern.daysOfWeek.a) > 0

\* a search over six days instead of seven
findNextDayOfWeek_SixDays(baseDate, targetDays, z) ==
    LET currentDay == GetDay(baseDate, z)
        hits == IF currentDay.k # "num" THEN {}
                ELSE {i \in 0..5 : ((currentDay.n + i) % 7) \in DaySet(targetDays)}
    IN  IF hits = {} THEN Null
        ELSE LET i == CHOOSE h \in hits : \A g \in hits : h <= g
             IN  SetDate(baseDate, NumAdd(GetDate(baseDate, z), Num(i)), z)

\* a search that starts on the day after baseDate
findNextDayOfWeek_FromTomorrow(baseDate, targetDays, z) ==
    LET currentDay == GetDay(baseDate, z)
        hits == IF currentDay.k # "num" THEN {}
                ELSE {i \in 1..7 : ((currentDay.n + i) % 7) \in DaySet(targetDays)}
    IN  IF hits = {} THEN Null
        ELSE LET i == CHOOSE h \in hits : \A g \in hits : h <= g
             IN  SetDate(baseDate, NumAdd(GetDate(baseDate, z), Num(i)), z)

\* lines 149-163: the first of the 7 days from baseDate on whose weekday is
\* in targetDays; null when there is none
findNextDayOfWeek(baseDate, targetDays, z) ==
    LET currentDay == GetDay(baseDate, z)
        hits == IF currentDay.k # "num" THEN {}
                ELSE {i \in 0..6 : ((currentDay.n + i) % 7) \in DaySet(targetDays)}
    IN  IF hits = {} THEN Null
        ELSE LET i == CHOOSE h \in hits : \A g \in hits : h <= g
             IN  SetDate(baseDate, NumAdd(GetDate(baseDate, z), Num(i)), z)

\* a loop that skips Sunday only
RECURSIVE SkipWeekend_SundayOnly(_, _)
SkipWeekend_SundayOnly(nextDate, z) ==
    IF GetDay(nextDate, z) = Num(0)
    THEN SkipWeekend_SundayOnly(SetDate(nextDate, NumAdd(GetDate(nextDate, z), Num(1)), z), z)
    ELSE nextDate

\* lines 107-109: the loop runs while the day is Sunday or Saturday
RECURSIVE SkipWeekend(_, _)
SkipWeekend(nextDate, z) ==
    IF GetDay(nextDate, z) \in {Num(0), Num(6)}
    THEN SkipWeekend(SetDate(nextDate, NumAdd(GetDate(nextDate, z), Num(1)), z), z)
    ELSE nextDate

\* lines 166-188
getCustomNextOccurrence(lastDate, pattern, z) ==
    IF HasDaysOfWeek(pattern)
    THEN LET nextDate == SetDate(lastDate, NumAdd(GetDate(lastDate, z), Num(1)), z)
             targetDay == findNextDayOfWeek(nextDate, pattern.daysOfWeek, z)
         IN  IF Truthy(targetDay) THEN targetDay ELSE nextDate
    ELSE IF Truthy(pattern.dayOfMonth)
    THEN SetDate(SetMonth(lastDate, NumAdd(GetMonth(lastDate, z), Num(1)), z),
                 pattern.dayOfMonth, z)
    ELSE SetDate(lastDate, NumAdd(GetDate(lastDate, z), Num(1)), z)

\* lines 88-127: nextDate at the end of the switch, for the five types that
\* leave it by break
SwitchNextDate(lastDate, pattern, z) ==
    CASE pattern.type.s = "daily" ->
             SetDate(lastDate, NumAdd(GetDate(lastDate, z), pattern.interval), z)
      [] pattern.type.s = "weekly" ->
             LET nextDate == SetDate(lastDate,
                                 NumAdd(GetDate(lastDate, z), NumMul(pattern.interval, Num(7))), z)
                 targetDay == IF HasDaysOfWeek(pattern)
                              THEN findNextDayOfWeek(nextDate, pattern.daysOfWeek, z)
                              ELSE Null
             IN  IF Truthy(targetDay) THEN targetDay ELSE nextDate
      [] pattern.type.s = "weekday" ->
             SkipWeekend(SetDate(lastDate, NumAdd(GetDate(lastDate, z), pattern.interval), z), z)
      [] pattern.type.s = "monthly" ->
             LET nextDate == SetMonth(lastDate, NumAdd(GetMonth(lastDate, z), pattern.interval), z)
             IN  IF Truthy(pattern.dayOfMonth) THEN SetDate(nextDate, pattern.dayOfMonth, z)
                 ELSE nextDate
      [] pattern.type.s = "yearly" ->
             LET inYear == SetFullYear(lastDate,
                               NumAdd(GetFullYear(lastDate, z), pattern.interval), z)
                 inMonth == IF Truthy(pattern.month)
                            THEN SetMonth(inYear, NumAdd(pattern.month, Num(-1)), z)
                            ELSE inYear
             IN  IF Truthy(pattern.dayOfMonth) THEN SetDate(inMonth, pattern.dayOfMonth, z)
                 ELSE inMonth

\* lines 136-141
EndDateCheck(nextDate, pattern) ==
    IF Truthy(pattern.endDate) /\ DateGreater(nextDate, NewDate(pattern.endDate))
    THEN Null
    ELSE nextDate

\* line 83: parseRecurringPattern(task.recurringPattern || '')
ParsedPattern(t) ==
    parseRecurringPattern(IF Truthy(t.recurringPattern) THEN t.recurringPattern ELSE Str(""))

\* lines 83-141, the body of the try: Throw when it raises
NextOccurrenceBody(t, z) ==
    LET pattern == ParsedPattern(t)
        lastDate == NewDate(t.date)
    IN  IF pattern = Throw THEN Throw
        ELSE IF pattern.type.s = "custom" THEN getCustomNextOccurrence(lastDate, pattern, z)
        ELSE IF pattern.type.s \notin validTypes THEN Null
        ELSE EndDateCheck(SwitchNextDate(lastDate, pattern, z), pattern)

\* the try block re-raising what its body raised
RethrowFromTry(r) == r

\* lines 142-145: the catch turns whatever the try raised into null
CatchToNull(r) == IF r = Throw THEN Null ELSE r

\* the two tests joined by "and": a task must fail both to be skipped
SkipsOccurrence_Both(t) == ~t.isRecurring /\ ~Truthy(t.date)

\* line 78
SkipsOccurrence(t) == ~t.isRecurring \/ ~Truthy(t.date)

getNextOccurrence(t, z) ==
    IF SkipsOccurrence(t) THEN Null
    ELSE CatchToNull(NextOccurrenceBody(t, z))

(***************************************************************************)
(* What a call of getNextOccurrence leaves in the objects of its caller.   *)
(* Objects are named by references; a setter or an in-place sort writes to *)
(* the object its receiver refers to.                                      *)
(***************************************************************************)
\* the Date object task.date and the list pattern.daysOfWeek of a structured
\* task.recurringPattern
AnchorRef == "task.date"
DaysRef == "task.recurringPattern.daysOfWeek"

\* the same object under another name (const lastDate = task.date)
NewDateRef_SameObject(ref) == ref

\* new Date(d): a new object, whichever object d is
NewDateRef(ref) == "new Date"

\* Array.prototype.filter returns a new array
FilterRef(ref) == "new Array"

\* lines 84-85 and 167: the object nextDate names when the setters run
NextDateRef == NewDateRef(NewDateRef(AnchorRef))

\* lines 44-46: the array .sort reorders in place
SortedRef == FilterRef(DaysRef)

\* the time the setters of lines 88-127 and 171-183 leave in that object
SettersLeave(lastDate, pattern, z) ==
    IF pattern.type.s = "custom"
    THEN IF HasDaysOfWeek(pattern)
         THEN SetDate(lastDate, NumAdd(GetDate(lastDate, z), Num(1)), z)
         ELSE getCustomNextOccurrence(lastDate, pattern, z)
    ELSE IF pattern.type.s = "weekly"
    THEN SetDate(lastDate, NumAdd(GetDate(lastDate, z), NumMul(pattern.interval, Num(7))), z)
    ELSE SwitchNextDate(lastDate, pattern, z)

\* the stored pattern after validateRecurringPattern filtered and sorted
WithSortedDays(stored) ==
    IF stored.k = "obj" /\ Truthy(stored.daysOfWeek) /\ stored.daysOfWeek.k = "arr"
       /\ SortedRef = DaysRef
    THEN [stored EXCEPT !.daysOfWeek = Arr(SortAsc(FilterValidDays(stored.daysOfWeek.a)))]
    ELSE stored

\* the task of the caller after getNextOccurrence(task) returned
TaskAfter(t, z) ==
    IF SkipsOccurrence(t) \/ ParsedPattern(t) = Throw THEN t
    ELSE [t EXCEPT !.date = IF NextDateRef = AnchorRef
                            THEN SettersLeave(NewDate(t.date), ParsedPattern(t), z)
                            ELSE @,
                   !.recurringPattern = WithSortedDays(@)]

(***************************************************************************)
(* isTaskActive                                                            *)
(***************************************************************************)
\* lines 206-211, with today = new Date() at tick clock
EndDateNotPassed(pattern, clock, z) ==
    LET today == SetHoursZero(DateAt(clock), z)
        endDate == SetHoursZero(NewDate(pattern.endDate), z)
    IN  DateLessEq(today, endDate)

\* lines 201-211, the body of the try: Throw when it raises
ActiveBody(t, clock, z) ==
    LET pattern == parseRecurringPattern(t.recurringPattern)
    IN  IF pattern = Throw THEN Throw
        ELSE IF ~Truthy(pattern.endDate) THEN Bool(TRUE)
        ELSE Bool(EndDateNotPassed(pattern, clock, z))

\* a catch that reports the task as not active
CatchToInactive(r) == IF r = Throw THEN FALSE ELSE r.b

\* lines 212-215: the catch reports the task as active
CatchToActive(r) == IF r = Throw THEN TRUE ELSE r.b

\* lines 191-216
isTaskActive(t, clock, z) ==
    IF ~t.isRecurring THEN TRUE
    ELSE IF ~Truthy(t.recurringPattern) THEN TRUE
    ELSE CatchToActive(ActiveBody(t, clock, z))

(***************************************************************************)
(* JSON.stringify, as a caller applies it to a structured pattern          *)
(***************************************************************************)
\* the JSON value of v: NaN and, inside an array, undefined become null; a
\* property holding undefined is left out
ToJsonScalar(v) == IF v.k \in {"nan", "undefined"} THEN Null ELSE v

ToJsonField(v) ==
    CASE v.k = "nan" -> Null
      [] v.k = "arr" -> Arr([i \in 1..Len(v.a) |-> ToJsonScalar(v.a[i])])
      [] OTHER -> v

ToJson(v) ==
    CASE v.k = "obj" ->
             Obj(ToJsonField(v.type), ToJsonField(v.interval), ToJsonField(v.daysOfWeek),
                 ToJsonField(v.dayOfMonth), ToJsonField(v.month), ToJsonField(v.endDate))
      [] OTHER -> ToJsonField(v)

JsonStringify(v) == JsonText(ToJson(v))

(***************************************************************************)
(* The inputs of the parser                                                *)
(***************************************************************************)
MaxInterval == 2
MaxDays == 2

TypeInputs == {Undefined, Str("Daily")} \cup {Str(t) : t \in validTypes}
IntervalInputs == {Undefined, Str("abc")} \cup {Num(i) : i \in -1..MaxInterval}
DayEntries == {Num(-1), Num(0), Num(6), Num(7), Frac}
DayLists == UNION {[1..n -> DayEntries] : n \in 0..MaxDays}
DaysOfWeekInputs == {Undefined, Num(5)} \cup {Arr(a) : a \in DayLists}
DayOfMonthInputs == {Undefined, Num(-1), Num(0), Num(31), Num(32)}
MonthInputs == {Undefined, Num(-1), Num(0), Num(12), Num(13)}
EndDateInputs == {Undefined, IsoDate(2024, 1, 16), Str("not-a-date")}

\* structured patterns, well formed or not: every type, interval and
\* daysOfWeek with the other fields all absent or all out of range, and every
\* dayOfMonth, month and endDate with and without an unsorted daysOfWeek
PatternObjects ==
    {Obj(t, i, ds, r[1], r[2], r[3]) :
        t \in TypeInputs, i \in IntervalInputs, ds \in DaysOfWeekInputs,
        r \in {<<Undefined, Undefined, Undefined>>,
               <<Num(32), Num(13), IsoDate(2024, 1, 16)>>}}
    \cup
    {Obj(t, i, ds, d, m, e) :
        t \in {Undefined, Str("weekly")}, i \in {Undefined, Num(MaxInterval)},
        ds \in {Undefined, Arr(<<Num(6), Num(0)>>)},
        d \in DayOfMonthInputs, m \in MonthInputs, e \in EndDateInputs}

\* JSON values that are not objects
JsonScalars == {Null, Num(5), Bool(TRUE), Str("weekly"), Arr(<<>>), Arr(<<Num(1)>>)}

\* strings that are not JSON text (JSON.parse raises on each)
LegacyStrings ==
    {Str(s) : s \in validTypes \cup {"", "Daily", "invalid json", "not-json-not-a-type",
                                     "{type:weekly}"}}

RawInputs ==
    PatternObjects \cup {Null}
        \cup {JsonText(v) : v \in PatternObjects \cup JsonScalars}
        \cup LegacyStrings

NoTask == [isRecurring |-> FALSE, date |-> Null, recurringPattern |-> Null]

InitParse ==
    /\ raw \in RawInputs
    /\ task = NoTask
    /\ tz = 0
    /\ now = 0
    /\ op = "init"
    /\ ret = Undefined
    /\ lists = <<>>
    /\ request = Null

\* a caller applies parseRecurringPattern to raw
Parse ==
    /\ op' = "parse"
    /\ ret' = parseRecurringPattern(raw)
    /\ UNCHANGED <<raw, task, tz, now, lists, request>>

\* a caller applies validateRecurringPattern to raw
Validate ==
    /\ op' = "validate"
    /\ ret' = validateRecurringPattern(raw)
    /\ UNCHANGED <<raw, task, tz, now, lists, request>>

NextParse == Parse \/ Validate

SpecParse == InitParse /\ [][NextParse]_vars

(***************************************************************************)
(* The inputs of getNextOccurrence: the specification Spec                 *)
(***************************************************************************)
\* Mon 15 Jan, Wed 31 Jan, Thu 29 Feb, Fri 1 Mar, Sat 30 Nov, Tue 31 Dec
AnchorDates ==
    {<<2024, 1, 15>>, <<2024, 1, 31>>, <<2024, 2, 29>>, <<2024, 3, 1>>,
     <<2024, 11, 30>>, <<2024, 12, 31>>}

AnchorTicks ==
    {DaysFromCivil(c[1], c[2], c[3]) * TicksPerDay + h :
        c \in AnchorDates, h \in 0..(TicksPerDay - 1)}

\* zones west of, at and east of UTC
TimeZones == {-1, 0, 1}

Intervals == {Num(i) : i \in 1..MaxInterval}
DayChoices == {Undefined, Arr(<<Num(1)>>), Arr(<<Num(0), Num(6)>>),
               Arr(<<Num(1), Num(3), Num(5)>>)}
DayOfMonthChoices == {Undefined, Num(15), Num(31)}
MonthChoices == {Undefined, Num(2), Num(12)}
EndDateChoices == {Undefined, IsoDate(2024, 1, 16), IsoDate(2024, 12, 1)}

\* validated patterns of each type, with the fields the type reads
SchedulePatterns ==
    {Obj(Str(t), i, Undefined, Undefined, Undefined, e) :
        t \in {"daily", "weekday"}, i \in Intervals, e \in EndDateChoices}
    \cup {Obj(Str("weekly"), i, ds, Undefined, Undefined, e) :
        i \in Intervals, ds \in DayChoices, e \in EndDateChoices}
    \cup {Obj(Str("monthly"), i, Undefined, d, Undefined, e) :
        i \in Intervals, d \in DayOfMonthChoices, e \in EndDateChoices}
    \cup {Obj(Str("yearly"), i, Undefined, d, m, e) :
        i \in Intervals, d \in DayOfMonthChoices, m \in MonthChoices, e \in EndDateChoices}
    \cup {Obj(Str("custom"), i, ds, d, Undefined, e) :
        i \in Intervals, ds \in DayChoices, d \in DayOfMonthChoices, e \in EndDateChoices}

\* stored patterns that are not a JSON-encoded validated pattern: none, the
\* empty string, legacy keywords, text that is not JSON, JSON null, a pattern
\* whose interval is a word, and structured objects (one with a daysOfWeek
\* that is not a list, one with a daysOfWeek that is not sorted)
OddPatterns ==
    {Null, Str(""), Str("weekly"), Str("invalid json"), JsonText(Null),
     JsonText(Obj(Str("daily"), Str("abc"), Undefined, Undefined, Undefined, Undefined)),
     Obj(Str("daily"), Num(1), Undefined, Undefined, Undefined, Undefined),
     Obj(Str("weekly"), Num(1), Num(5), Undefined, Undefined, IsoDate(2024, 1, 16)),
     Obj(Str("weekly"), Num(1), Arr(<<Num(6), Num(0)>>), Undefined, Undefined, Undefined)}

StoredPatterns == OddPatterns \cup {JsonText(p) : p \in SchedulePatterns}

Init ==
    /\ raw = Null
    /\ task \in [isRecurring : BOOLEAN,
                 date : {Null} \cup {DateAt(t) : t \in AnchorTicks},
                 recurringPattern : StoredPatterns]
    /\ tz \in TimeZones
    /\ now = 0
    /\ op = "init"
    /\ ret = Undefined
    /\ lists = <<>>
    /\ request = Null

\* a caller applies getNextOccurrence to the task
NextOccurrence ==
    /\ op' = "next"
    /\ ret' = getNextOccurrence(task, tz)
    /\ task' = TaskAfter(task, tz)
    /\ UNCHANGED <<raw, tz, now, lists, request>>

Next == NextOccurrence

Spec == Init /\ [][Next]_vars

(***************************************************************************)
(* The inputs of isTaskActive: the specification SpecActive                *)
(***************************************************************************)
\* the ticks of 15, 16 and 17 Jan 2024 (UTC)
ClockTicks ==
    {DaysFromCivil(2024, 1, d) * TicksPerDay + h : d \in 15..17, h \in 0..(TicksPerDay - 1)}

ActivePatterns ==
    {Null, Str(""), Str("daily"), Str("invalid json"),
     JsonText(Obj(Str("daily"), Undefined, Undefined, Undefined, Undefined, Undefined)),
     JsonText(Obj(Str("daily"), Undefined, Undefined, Undefined, Undefined, IsoDate(2024, 1, 16))),
     JsonText(Obj(Str("custom"), Num(2), Arr(<<Num(1)>>), Undefined, Undefined, IsoDate(2024, 1, 15))),
     JsonText(Obj(Str("daily"), Undefined, Undefined, Undefined, Undefined, Str("not-a-date"))),
     Obj(Str("weekly"), Num(1), Undefined, Undefined, Undefined, IsoDate(2024, 1, 16)),
     Obj(Str("weekly"), Num(1), Num(5), Undefined, Undefined, IsoDate(2024, 1, 16))}

InitActive ==
    /\ raw = Null
    /\ task \in [isRecurring : BOOLEAN, date : {Null}, recurringPattern : ActivePatterns]
    /\ tz \in TimeZones
    /\ now \in ClockTicks
    /\ op = "init"
    /\ ret = Undefined
    /\ lists = <<>>
    /\ request = Null

\* a caller applies isTaskActive to the task when the clock reads now
CheckActive ==
    /\ op' = "active"
    /\ ret' = Bool(isTaskActive(task, now, tz))
    /\ UNCHANGED <<raw, task, tz, now, lists, request>>

NextActive == CheckActive

SpecActive == InitActive /\ [][NextActive]_vars

(***************************************************************************)
(* getRecurrenceSummary (lines 219-270)                                    *)
(***************************************************************************)
dayNames == <<"Sun", "Mon", "Tue", "Wed", "Thu", "Fri", "Sat">>
monthNames == <<"Jan", "Feb", "Mar", "Apr", "May", "Jun",
                "Jul", "Aug", "Sep", "Oct", "Nov", "Dec">>

\* `${v}`: the string a template literal renders the value as
TemplateString(v) ==
    CASE v.k = "num" -> ToString(v.n)
      [] v.k = "nan" -> "NaN"
      [] v.k = "frac" -> "1.5"
      [] IsPlainText(v) -> v.s
      [] OTHER -> "undefined"

\* Array.prototype.join
RECURSIVE Join(_, _)
Join(parts, sep) ==
    IF Len(parts) = 0 THEN ""
    ELSE IF Len(parts) = 1 THEN parts[1]
    ELSE parts[1] \o sep \o Join(Tail(parts), sep)

\* dayNames[d]; join renders an undefined element as the empty string
DayName(d) == IF d.k = "num" /\ d.n \in 0..6 THEN dayNames[d.n + 1] ELSE ""

\* pattern.daysOfWeek.map(d => dayNames[d]).join(', ')
DayNamesOf(daysOfWeek) ==
    Join([i \in 1..Len(daysOfWeek.a) |-> DayName(daysOfWeek.a[i])], ", ")

\* the month name of index m instead of m - 1
MonthName_ZeroBased(m) ==
    IF m.k = "num" /\ m.n \in 0..11 THEN monthNames[m.n + 1] ELSE "undefined"

\* `${monthNames[pattern.month - 1]}`
MonthName(m) ==
    IF m.k = "num" /\ m.n \in 1..12 THEN monthNames[m.n] ELSE "undefined"

\* the string as it is, with no white space removed
Trim_Nothing(str) == str

\* the string without the spaces at its end
RECURSIVE TrimEnd(_)
TrimEnd(str) ==
    IF Len(str) > 0 /\ SubSeq(str, Len(str), Len(str)) = " "
    THEN TrimEnd(SubSeq(str, 1, Len(str) - 1)) ELSE str

\* the string without the spaces at its start
RECURSIVE TrimStart(_)
TrimStart(str) ==
    IF Len(str) > 0 /\ SubSeq(str, 1, 1) = " "
    THEN TrimStart(SubSeq(str, 2, Len(str))) ELSE str

\* String.prototype.trim on a string whose white space is spaces
Trim(str) == TrimStart(TrimEnd(str))

\* pattern.interval === 1
IntervalIsOne(pattern) == pattern.interval = Num(1)

\* lines 251-265
CustomSummary(pattern) ==
    LET parts ==
            (IF Truthy(pattern.daysOfWeek) /\ Len(pattern.daysOfWeek.a) > 0
                THEN <<"on " \o DayNamesOf(pattern.daysOfWeek)>> ELSE <<>>)
            \o (IF Truthy(pattern.dayOfMonth)
                THEN <<"on day " \o TemplateString(pattern.dayOfMonth)>> ELSE <<>>)
            \o (IF Truthy(pattern.month)
                THEN <<"in " \o MonthName(pattern.month)>> ELSE <<>>)
        interval == IF NumLess(Num(1), pattern.interval)
                    THEN "every " \o TemplateString(pattern.interval) \o " " ELSE ""
    IN  Trim("Custom " \o interval \o (IF Len(parts) > 0 THEN Join(parts, " ") ELSE ""))

\* returns the summary string
getRecurrenceSummary(pattern) ==
    LET N == TemplateString(pattern.interval)
        type == pattern.type.s
    IN  CASE type = "daily" ->
                IF IntervalIsOne(pattern) THEN "Daily" ELSE "Every " \o N \o " days"
          [] type = "weekly" ->
                IF IntervalIsOne(pattern) /\ Truthy(pattern.daysOfWeek)
                THEN IF Len(pattern.daysOfWeek.a) = 7 THEN "Daily"
                     ELSE "Every week on " \o DayNamesOf(pattern.daysOfWeek)
                ELSE "Every " \o N \o " weeks"
          [] type = "weekday" ->
                IF IntervalIsOne(pattern) THEN "Every weekday"
                ELSE "Every " \o N \o " weekdays"
          [] type = "monthly" ->
                IF IntervalIsOne(pattern) /\ Truthy(pattern.dayOfMonth)
                THEN "Every month on day " \o TemplateString(pattern.dayOfMonth)
                ELSE "Every " \o N \o " months"
          [] type = "yearly" ->
                IF IntervalIsOne(pattern) /\ Truthy(pattern.month)
                   /\ Truthy(pattern.dayOfMonth)
                THEN "Every year on " \o MonthName(pattern.month) \o " "
                         \o TemplateString(pattern.dayOfMonth)
                ELSE "Every " \o N \o " years"
          [] type = "custom" -> CustomSummary(pattern)
          [] OTHER -> "Recurring"

(***************************************************************************)
(* SpecSummary: getRecurrenceSummary on the patterns                       *)
(* validateRecurringPattern returns                                        *)
(***************************************************************************)
SummaryDayLists ==
    {<<0, 1, 2, 3, 4, 5, 6>>, <<6, 5, 4, 3, 2, 1, 0>>, <<1, 1, 1, 1, 1, 1, 1>>,
     <<1, 3, 5>>, <<5, 1>>, <<0>>, <<7, 8>>}

\* what a caller passes to validateRecurringPattern before summarising
SummaryRawPatterns ==
    {Obj(t, i, ds, d, m, Undefined) :
        t \in {Str(ty) : ty \in validTypes} \cup {Str("Daily")},
        i \in {Undefined, Str("abc")} \cup {Num(n) : n \in 0..(MaxInterval + 1)},
        ds \in {Undefined} \cup {Arr([j \in 1..Len(l) |-> Num(l[j])]) : l \in SummaryDayLists},
        d \in {Undefined, Num(0), Num(15), Num(32)},
        m \in {Undefined, Num(0), Num(2), Num(12), Num(13)}}

ValidatedPatterns == {validateRecurringPattern(p) : p \in SummaryRawPatterns} \ {Throw}

InitSummary ==
    /\ raw \in ValidatedPatterns
    /\ task = NoTask
    /\ tz = 0
    /\ now = 0
    /\ op = "init"
    /\ ret = Undefined
    /\ lists = <<>>
    /\ request = Null

\* a caller applies getRecurrenceSummary to the validated pattern raw
Summarize ==
    /\ op' = "summary"
    /\ ret' = Str(getRecurrenceSummary(raw))
    /\ UNCHANGED <<raw, task, tz, now, lists, request>>

NextSummary == Summarize

SpecSummary == InitSummary /\ [][NextSummary]_vars

(***************************************************************************)
(* SpecLists: the List table under POST /api/lists and PUT /api/lists/[id] *)
(* (src/unnamed/part_002, src/app/api/lists/[id]/route.ts), one request at *)
(* a time. A row keeps the columns the handlers read: userId, isDefault.   *)
(***************************************************************************)
MaxLists == 3
Users == {"u1", "u2"}

ListIds == 1..MaxLists

\* prisma.list.updateMany({where: {userId, id: {not: except}, isDefault:
\* true}, data: {isDefault: false}}); except = 0 when the where has no id
ClearDefaults(rows, userId, except) ==
    [i \in DOMAIN rows |->
        IF rows[i].userId = userId /\ i # except /\ rows[i].isDefault
        THEN [rows[i] EXCEPT !.isDefault = FALSE] ELSE rows[i]]

\* prisma.list.update({where: {id}, data}): the columns the body names
UpdateRow(row, data) ==
    [userId |-> IF data.userId = Undefined THEN row.userId ELSE data.userId.s,
     isDefault |-> IF data.isDefault = Undefined THEN row.isDefault ELSE data.isDefault.b]

\* the bodies createListSchema accepts: isDefault defaults to false
CreateBodies == [userId : {Str(u) : u \in Users}, isDefault : {Bool(TRUE), Bool(FALSE)}]

\* the bodies updateListSchema accepts: every field is optional
UpdateBodies ==
    [userId : {Undefined} \cup {Str(u) : u \in Users},
     isDefault : {Undefined, Bool(TRUE), Bool(FALSE)}]

InitLists ==
    /\ raw = Null
    /\ task = NoTask
    /\ tz = 0
    /\ now = 0
    /\ op = "init"
    /\ ret = Undefined
    /\ lists = <<>>
    /\ request = Null

\* POST /api/lists
PostList ==
    \E data \in CreateBodies :
        /\ Len(lists) < MaxLists
        /\ lists' = Append(IF data.isDefault.b
                           THEN ClearDefaults(lists, data.userId.s, 0)
                           ELSE lists,
                           [userId |-> data.userId.s, isDefault |-> data.isDefault.b])
        /\ request' = [id |-> Len(lists) + 1, data |-> data]
        /\ op' = "POST"
        /\ ret' = Num(201)
        /\ UNCHANGED <<raw, task, tz, now>>

\* PUT /api/lists/[id]
PutList ==
    \E id \in ListIds, data \in UpdateBodies :
        LET found == id \in DOMAIN lists
            cleared == IF Truthy(data.isDefault) /\ found
                       THEN ClearDefaults(lists, lists[id].userId, id)
                       ELSE lists
        IN  /\ lists' = IF found
                        THEN [cleared EXCEPT ![id] = UpdateRow(@, data)]
                        ELSE lists
            /\ request' = [id |-> id, data |-> data]
            /\ op' = "PUT"
            /\ ret' = IF found THEN Num(200) ELSE Num(404)
            /\ UNCHANGED <<raw, task, tz, now>>

NextLists == PostList \/ PutList

SpecLists == InitLists /\ [][NextLists]_vars

(***************************************************************************)
(* SpecSearch: findNextDayOfWeek on every base date and every list of      *)
(* weekdays without duplicates, in ascending order                         *)
(***************************************************************************)
\* the set of weekdays as the ascending list validateRecurringPattern stores
RECURSIVE AscendingList(_)
AscendingList(S) ==
    IF S = {} THEN <<>>
    ELSE LET least == CHOOSE d \in S : \A e \in S : d <= e
         IN  <<Num(least)>> \o AscendingList(S \ {least})

TargetDayLists == {Arr(AscendingList(S)) : S \in SUBSET (0..6)}

InitSearch ==
    /\ raw \in TargetDayLists
    /\ task \in [isRecurring : {TRUE}, date : {DateAt(t) : t \in AnchorTicks},
                 recurringPattern : {Null}]
    /\ tz \in TimeZones
    /\ now = 0
    /\ op = "init"
    /\ ret = Undefined
    /\ lists = <<>>
    /\ request = Null

\* a caller applies findNextDayOfWeek to the base date task.date and the
\* target days raw
FindDay ==
    /\ op' = "find"
    /\ ret' = findNextDayOfWeek(task.date, raw, tz)
    /\ UNCHANGED <<raw, task, tz, now, lists, request>>

NextSearch == FindDay

SpecSearch == InitSearch /\ [][NextSearch]_vars

(***************************************************************************)
(* SpecTaskPut: PUT /api/tasks/[id] (src/app/api/tasks/[id]/route.ts),     *)
(* the part that decides the recurringPattern and isRecurring columns of   *)
(* the task row; task is the row of the one stored task                    *)
(***************************************************************************)
UpperCaseLetters == "ABCDEFGHIJKLMNOPQRSTUVWXYZ"
LowerCaseLetters == "abcdefghijklmnopqrstuvwxyz"

LowerChar(c) ==
    LET at == {i \in 1..Len(UpperCaseLetters) : SubSeq(UpperCaseLetters, i, i) = c}
    IN  IF at = {} THEN c
        ELSE LET i == CHOOSE j \in at : TRUE IN SubSeq(LowerCaseLetters, i, i)

\* String.prototype.toLowerCase on ASCII text
RECURSIVE ToLowerCase(_)
ToLowerCase(str) ==
    IF Len(str) = 0 THEN ""
    ELSE LowerChar(SubSeq(str, 1, 1)) \o ToLowerCase(SubSeq(str, 2, Len(str)))

\* line 103
allowedTypes == {"daily", "weekly", "weekday", "monthly", "yearly", "custom"}

\* lines 102-109: the catch of the handler's JSON.parse
HandlerLegacyPattern(str) ==
    LET lower == ToLowerCase(str.s)
    IN  Obj(Str(IF lower \in allowedTypes THEN lower ELSE "custom"), Num(1),
            Undefined, Undefined, Undefined, Undefined)

\* z.number().min(lo).max(hi).optional()
OptionalNumberIn(v, lo, hi) ==
    \/ v = Undefined
    \/ v.k = "num" /\ lo <= v.n /\ v.n <= hi
    \/ v.k = "frac" /\ lo <= 1 /\ 2 <= hi

\* lines 42-49: apiUpdateRecurringPatternSchema.parse(v) does not raise
SchemaAccepts(v) ==
    /\ v.k = "obj"
    /\ v.type = Undefined \/ (IsPlainText(v.type) /\ v.type.s \in allowedTypes)
    /\ v.interval = Undefined \/ NumLess(Num(0), v.interval)
    /\ \/ v.daysOfWeek = Undefined
       \/ /\ v.daysOfWeek.k = "arr"
          /\ \A i \in 1..Len(v.daysOfWeek.a) : /\ v.daysOfWeek.a[i] # Undefined
                                               /\ OptionalNumberIn(v.daysOfWeek.a[i], 0, 6)
    /\ OptionalNumberIn(v.dayOfMonth, 1, 31)
    /\ OptionalNumberIn(v.month, 1, 12)
    /\ v.endDate = Undefined \/ TypeOf(v.endDate) = "string"

\* lines 75-79: the refinement of updateTaskSchema
RefineAccepts(body) == ~(body.isRecurring = Bool(TRUE) /\ ~Truthy(body.recurringPattern))

\* lines 95-111: parsedRecurringPattern before it is validated
ParsedRecurringPattern(body) ==
    LET rp == body.recurringPattern
    IN  IF (body.isRecurring = Bool(TRUE) \/ Truthy(rp)) /\ TypeOf(rp) = "string"
        THEN IF JsonParse(rp) # Throw THEN JsonParse(rp) ELSE HandlerLegacyPattern(rp)
        ELSE rp

\* lines 96 and 114-116: the pattern passes, or is not put to, the schema
PatternAccepted(body) ==
    LET parsed == ParsedRecurringPattern(body)
    IN  (body.isRecurring = Bool(TRUE) \/ Truthy(body.recurringPattern))
            => (Truthy(parsed) => SchemaAccepts(parsed))

\* lines 211-216: the columns prisma.task.update writes
UpdatedTask(row, body) ==
    LET parsed == ParsedRecurringPattern(body)
    IN  [row EXCEPT
            !.isRecurring = IF body.isRecurring = Undefined THEN @ ELSE body.isRecurring.b,
            !.recurringPattern = IF parsed # Undefined THEN JsonStringify(parsed) ELSE @]

TaskIds == {"t1"}
RequestIds == {"t1", "t2"}

\* the recurringPattern of a request body: absent, legacy keywords in both
\* cases, other text, JSON text
PutPatterns ==
    {Undefined}
    \cup {Str(str) : str \in validTypes \cup {"", "Daily", "WEEKLY", "biweekly", "invalid json"}}
    \cup {JsonText(v) : v \in
            {Null, Num(5),
             Obj(Str("daily"), Num(1), Undefined, Undefined, Undefined, Undefined),
             Obj(Str("weekly"), Num(2), Arr(<<Num(1), Num(3)>>), Undefined, Undefined,
                 IsoDate(2024, 1, 16)),
             Obj(Str("Daily"), Num(1), Undefined, Undefined, Undefined, Undefined)}}

PutBodies ==
    [isRecurring : {Undefined, Bool(TRUE), Bool(FALSE)}, recurringPattern : PutPatterns]

InitTaskPut ==
    /\ raw = Null
    /\ task = NoTask
    /\ tz = 0
    /\ now = 0
    /\ op = "init"
    /\ ret = Undefined
    /\ lists = <<>>
    /\ request = Null

\* PUT /api/tasks/[id]
PutTask ==
    \E id \in RequestIds, body \in PutBodies :
        LET status == IF ~RefineAccepts(body) \/ ~PatternAccepted(body) THEN 400
                      ELSE IF id \notin TaskIds THEN 404
                      ELSE 200
        IN  /\ request' = [id |-> id, body |-> body]
            /\ op' = "PUT"
            /\ ret' = Num(status)
            /\ task' = IF status = 200 THEN UpdatedTask(task, body) ELSE task
            /\ UNCHANGED <<raw, tz, now, lists>>

NextTaskPut == PutTask

SpecTaskPut == InitTaskPut /\ [][NextTaskPut]_vars

(***************************************************************************)
(* SpecSeries: a caller follows a series: it replaces the task's anchor    *)
(* date by the date getNextOccurrence returned and asks again, until it    *)
(* gets none. The series is followed up to MaxSeriesDays days after        *)
(* SeriesStart.                                                            *)
(***************************************************************************)
MaxSeriesDays == 50
SeriesStart == DaysFromCivil(2024, 1, 15) * TicksPerDay

SeriesAnchorTicks ==
    {DaysFromCivil(c[1], c[2], c[3]) * TicksPerDay + h :
        c \in {<<2024, 1, 15>>, <<2024, 1, 31>>}, h \in 0..(TicksPerDay - 1)}

SeriesEndDates == {IsoDate(2024, 1, 16), IsoDate(2024, 2, 20)}

\* the validated patterns of every type, each with an endDate
SeriesPatterns ==
    {[p EXCEPT !.endDate = e] : p \in SchedulePatterns, e \in SeriesEndDates}

InitSeries ==
    /\ raw = Null
    /\ task \in [isRecurring : {TRUE},
                 date : {DateAt(t) : t \in SeriesAnchorTicks},
                 recurringPattern : {JsonText(p) : p \in SeriesPatterns}]
    /\ tz \in TimeZones
    /\ now = 0
    /\ op = "init"
    /\ ret = Undefined
    /\ lists = <<>>
    /\ request = Null

\* the caller asks for the next occurrence and makes it the anchor
Advance ==
    /\ ret # Null
    /\ IsDate(task.date)
    /\ task.date.t < SeriesStart + MaxSeriesDays * TicksPerDay
    /\ op' = "series"
    /\ ret' = getNextOccurrence(task, tz)
    /\ task' = IF IsDate(getNextOccurrence(task, tz))
               THEN [TaskAfter(task, tz) EXCEPT !.date = getNextOccurrence(task, tz)]
               ELSE TaskAfter(task, tz)
    /\ UNCHANGED <<raw, tz, now, lists, request>>

NextSeries == Advance

SpecSeries == InitSeries /\ [][NextSeries]_vars

(***************************************************************************)
(* Claims about the parser, checked under SpecParse                        *)
(***************************************************************************)
IsWellFormed(p) ==
    /\ p.k = "obj"
    /\ IsPlainText(p.type) /\ p.type.s \in validTypes
    /\ p.interval.k = "num" /\ p.interval.n >= 1

\* C1: parseRecurringPattern never raises: for every input it returns a
\* pattern whose type is one of the six types and whose interval is at
\* least 1.
C1_ParseNeverRaises == op = "parse" => IsWellFormed(ret)

\* C2: for every string s that is not JSON text, parseRecurringPattern(s) is
\* exactly {type: s, interval: 1} when s is one of the six type keywords and
\* exactly {type: "daily", interval: 1} otherwise, with no other field.
C2_LegacyFallback ==
    (op = "parse" /\ IsPlainText(raw)) =>
        ret = Obj(IF raw.s \in validTypes THEN raw ELSE Str("daily"), Num(1),
                  Undefined, Undefined, Undefined, Undefined)

C2_Witness ==
    /\ op = "parse"
    /\ raw = Str("not-json-not-a-type")
    /\ ret = Obj(Str("daily"), Num(1), Undefined, Undefined, Undefined, Undefined)

IsDailyWithInteger(p) ==
    /\ p.k = "obj"
    /\ p.type = Str("daily")
    /\ p.interval.k \in {"num", "undefined"}
    /\ p.daysOfWeek.k \in {"arr", "undefined"}

\* C3: for every integer i, parseRecurringPattern({type: "daily", interval:
\* i}).interval is max(1, i), and a missing interval yields 1.
C3_IntervalClamp ==
    (op = "parse" /\ IsDailyWithInteger(raw)) =>
        /\ ret # Throw
        /\ ret.interval = IF raw.interval.k = "num" /\ raw.interval.n >= 1
                          THEN raw.interval ELSE Num(1)

C3_Witness ==
    /\ op = "parse"
    /\ IsDailyWithInteger(raw)
    /\ raw.interval = Num(-1)
    /\ ret.interval = Num(1)

Clamp(lo, hi, n) == IF n < lo THEN lo ELSE IF n > hi THEN hi ELSE n

\* C4: for every integer d supplied as dayOfMonth (0 and negative values
\* included) the validated pattern has dayOfMonth = min(31, max(1, d)), and
\* for every integer m supplied as month it has month = min(12, max(1, m)):
\* a value outside the range is clamped into it, never dropped.
C4_FieldClamp ==
    (op = "validate" /\ raw.k = "obj" /\ ret # Throw) =>
        /\ raw.dayOfMonth.k = "num" => ret.dayOfMonth = Num(Clamp(1, 31, raw.dayOfMonth.n))
        /\ raw.month.k = "num" => ret.month = Num(Clamp(1, 12, raw.month.n))

IsStrictlyAscendingDays(a) ==
    /\ Len(a) > 0
    /\ \A i \in 1..Len(a) : a[i].k = "num" /\ a[i].n \in 0..6
    /\ \A i \in 1..(Len(a) - 1) : a[i].n < a[i + 1].n

\* C5: in every pattern validateRecurringPattern returns, daysOfWeek is
\* absent or a non-empty list of integers in 0..6 in ascending order with no
\* value repeated.
C5_DaysOfWeekSet ==
    (op = "validate" /\ ret # Throw) =>
        \/ ret.daysOfWeek = Undefined
        \/ ret.daysOfWeek.k = "arr" /\ IsStrictlyAscendingDays(ret.daysOfWeek.a)

\* C6: for every structured pattern p, parseRecurringPattern(JSON.stringify(p))
\* equals validateRecurringPattern(p), and so does parseRecurringPattern(p).
C6_RoundTrip ==
    (op = "validate" /\ raw.k = "obj") =>
        /\ parseRecurringPattern(JsonStringify(raw)) = ret
        /\ parseRecurringPattern(raw) = ret

(***************************************************************************)
(* Claims about getNextOccurrence, checked under Spec                      *)
(***************************************************************************)
\* C7: getNextOccurrence returns none whenever the task's isRecurring flag
\* is false or its anchor date is absent, whatever the stored pattern is, and
\* does so without raising.
C7_NoneWithoutFlagOrDate ==
    (op = "next" /\ (~task.isRecurring \/ task.date = Null)) => ret = Null

\* a recurring task with no date and a pattern on which the parser raises
C7_Witness ==
    /\ op = "next"
    /\ task.isRecurring
    /\ task.date = Null
    /\ task.recurringPattern.k = "obj"
    /\ task.recurringPattern.daysOfWeek = Num(5)
    /\ ret = Null

\* the date getNextOccurrence computes before it looks at the end date
Candidate(t, z) ==
    IF ParsedPattern(t).type.s = "custom"
    THEN getCustomNextOccurrence(NewDate(t.date), ParsedPattern(t), z)
    ELSE SwitchNextDate(NewDate(t.date), ParsedPattern(t), z)

\* C8: for every pattern type, custom included, if the pattern has an
\* endDate and the computed candidate is strictly later than it,
\* getNextOccurrence returns none; if the candidate is not later than
\* endDate, it returns the candidate.
C8_EndDateEveryPath ==
    (/\ op = "next"
     /\ task.isRecurring
     /\ task.date # Null
     /\ ParsedPattern(task) # Throw
     /\ Truthy(ParsedPattern(task).endDate)) =>
        ret = IF DateGreater(Candidate(task, tz), NewDate(ParsedPattern(task).endDate))
              THEN Null
              ELSE Candidate(task, tz)

\* C9: getNextOccurrence never raises to its caller: for every task record
\* and every stored pattern it returns either a Date or none, and when the
\* parser raises it returns none.
C9_NeverRaises ==
    op = "next" =>
        /\ ret # Throw
        /\ ret = Null \/ ret.k = "date"
        /\ (~SkipsOccurrence(task) /\ ParsedPattern(task) = Throw) => ret = Null

\* a recurring, dated task whose stored pattern makes the parser raise
C9_Witness ==
    /\ op = "next"
    /\ task.isRecurring
    /\ task.date # Null
    /\ ParsedPattern(task) = Throw
    /\ ret = Null

(***************************************************************************)
(* Claims about isTaskActive, checked under SpecActive                     *)
(***************************************************************************)
\* C10: isTaskActive returns true for every non-recurring task, for every
\* recurring task with no stored pattern and for every recurring task whose
\* pattern has no endDate; otherwise it returns true if and only if today's
\* calendar date is on or before the endDate's calendar date, whatever the
\* time of day.
C10_ActiveRule ==
    (op = "active" /\ ParsedPattern(task) # Throw) =>
        LET e == ParsedPattern(task).endDate
        IN  ret = Bool(\/ ~task.isRecurring
                       \/ ~Truthy(task.recurringPattern)
                       \/ ~Truthy(e)
                       \/ LocalDay(now, tz) <= DaysFromCivil(e.ymd[1], e.ymd[2], e.ymd[3]))

\* C11: isTaskActive fails open: whenever parsing the stored pattern raises
\* (a structured pattern whose daysOfWeek is not a list), isTaskActive
\* returns true, and it never raises.
C11_FailsOpen ==
    op = "active" =>
        /\ ret \in {Bool(TRUE), Bool(FALSE)}
        /\ (/\ task.isRecurring
            /\ Truthy(task.recurringPattern)
            /\ parseRecurringPattern(task.recurringPattern) = Throw) => ret = Bool(TRUE)

\* a recurring task whose stored pattern has a daysOfWeek that is a number
C11_Witness ==
    /\ op = "active"
    /\ task.isRecurring
    /\ task.recurringPattern.k = "obj"
    /\ task.recurringPattern.daysOfWeek = Num(5)
    /\ parseRecurringPattern(task.recurringPattern) = Throw
    /\ ret = Bool(TRUE)

(***************************************************************************)
(* Claims about the dates getNextOccurrence computes, checked under Spec   *)
(***************************************************************************)
\* the task is recurring and dated and its stored pattern parses to type ty
\* with an integer interval
Computes(ty) ==
    /\ op = "next"
    /\ task.isRecurring
    /\ task.date # Null
    /\ ParsedPattern(task) # Throw
    /\ ParsedPattern(task).type.s = ty
    /\ ParsedPattern(task).interval.k = "num"

\* the calendar date n days after the date, at the same time of day
PlusDays(date, n) == DateAt(date.t + n * TicksPerDay)

\* the weekday (0 = Sunday) of the date in the zone z
WeekdayOf(date, z) == (LocalDay(date.t, z) + 4) % 7

\* C12: for every anchor date and every interval n >= 1, the next occurrence
\* of a daily pattern without endDate is the calendar date exactly n days
\* after the anchor, also across month and year ends.
C12_Daily ==
    (Computes("daily") /\ ~Truthy(ParsedPattern(task).endDate)) =>
        ret = PlusDays(task.date, ParsedPattern(task).interval.n)

\* a daily occurrence that crosses from 2024 into 2025
C12_Witness ==
    /\ Computes("daily")
    /\ ~Truthy(ParsedPattern(task).endDate)
    /\ IsDate(ret)
    /\ CivilFromDays(LocalDay(task.date.t, tz)) = <<2024, 12, 31>>
    /\ CivilFromDays(LocalDay(ret.t, tz))[1] = 2025

\* the earliest date from the date on whose weekday is in the set S
FirstOnWeekday(date, S, z) ==
    PlusDays(date, CHOOSE i \in 0..6 :
                       /\ WeekdayOf(PlusDays(date, i), z) \in S
                       /\ \A j \in 0..(i - 1) : WeekdayOf(PlusDays(date, j), z) \notin S)

WeeklyExpected(t, z) ==
    LET pattern == ParsedPattern(t)
        base == PlusDays(t.date, 7 * pattern.interval.n)
    IN  IF pattern.daysOfWeek = Undefined THEN base
        ELSE IF DaySet(pattern.daysOfWeek) = {} THEN base
        ELSE FirstOnWeekday(base, DaySet(pattern.daysOfWeek), z)

\* C13: a weekly pattern without daysOfWeek gives anchor + 7n days; with a
\* non-empty daysOfWeek set S it gives the earliest date d >= anchor + 7n days
\* whose weekday is in S, so d lies 7n to 7n+6 days after the anchor and is
\* anchor + 7n when the anchor's weekday is in S (none when that date is
\* after the pattern's endDate).
C13_Weekly ==
    Computes("weekly") =>
        /\ ret = EndDateCheck(WeeklyExpected(task, tz), ParsedPattern(task))
        /\ IsDate(ret) =>
              /\ ret.t >= task.date.t + 7 * ParsedPattern(task).interval.n * TicksPerDay
              /\ ret.t <= task.date.t + (7 * ParsedPattern(task).interval.n + 6) * TicksPerDay
              /\ (/\ ParsedPattern(task).daysOfWeek # Undefined
                  /\ WeekdayOf(task.date, tz) \in DaySet(ParsedPattern(task).daysOfWeek))
                 => ret = PlusDays(task.date, 7 * ParsedPattern(task).interval.n)

\* one occurrence on the anchor's own weekday, one moved on to a later day
C13_Witness ==
    /\ Computes("weekly")
    /\ IsDate(ret)
    /\ ParsedPattern(task).daysOfWeek # Undefined
    /\ \/ /\ WeekdayOf(task.date, tz) \in DaySet(ParsedPattern(task).daysOfWeek)
          /\ ret = PlusDays(task.date, 7)
       \/ /\ WeekdayOf(task.date, tz) \notin DaySet(ParsedPattern(task).daysOfWeek)
          /\ ret.t > PlusDays(task.date, 7).t

\* the number of days of month m0 (0-based, may exceed 11) of year y
DaysInMonth(y, m0) == MakeDay(y, m0 + 1, 1) - MakeDay(y, m0, 1)

\* day d of month m0 of year y at the anchor's time of day, in the zone z
OnCivil(y, m0, d, date, z) == DateAt(FromLocal(MakeDay(y, m0, d), TimeInDay(date.t, z), z))

\* C14: for every anchor date (also on day 29, 30 or 31) and every interval
\* n, the next occurrence of a monthly pattern with dayOfMonth D, where the
\* month n months after the anchor's month has at least D days, is day D of
\* the month exactly n months after the anchor's month.
C14_Monthly ==
    LET pattern == ParsedPattern(task)
        c == CivilFromDays(LocalDay(task.date.t, tz))
    IN  (/\ Computes("monthly")
         /\ pattern.dayOfMonth # Undefined
         /\ pattern.endDate = Undefined
         /\ pattern.dayOfMonth.n <= DaysInMonth(c[1], c[2] - 1 + pattern.interval.n)) =>
            ret = OnCivil(c[1], c[2] - 1 + pattern.interval.n, pattern.dayOfMonth.n,
                          task.date, tz)

\* C15: for every anchor date and interval n, the next occurrence of a yearly
\* pattern with month M and dayOfMonth D (D a valid day of month M) is month
\* M, day D of the year anchor.year + n, whatever the anchor's own month and
\* day are.
C15_Yearly ==
    LET pattern == ParsedPattern(task)
        c == CivilFromDays(LocalDay(task.date.t, tz))
    IN  (/\ Computes("yearly")
         /\ pattern.dayOfMonth # Undefined
         /\ pattern.month # Undefined
         /\ pattern.endDate = Undefined
         /\ pattern.dayOfMonth.n
                <= DaysInMonth(c[1] + pattern.interval.n, pattern.month.n - 1)) =>
            ret = OnCivil(c[1] + pattern.interval.n, pattern.month.n - 1,
                          pattern.dayOfMonth.n, task.date, tz)

(***************************************************************************)
(* Claims about getRecurrenceSummary, checked under SpecSummary            *)
(***************************************************************************)
\* the interval as the summary shows it
Shown(v) == IF v.k = "num" THEN ToString(v.n) ELSE "NaN"

Summarized(ty) == op = "summary" /\ raw.type.s = ty

IsSet(v) == v # Undefined

\* the words separated by single spaces
RECURSIVE Spaced(_)
Spaced(words) ==
    IF Len(words) = 0 THEN ""
    ELSE IF Len(words) = 1 THEN words[1]
    ELSE words[1] \o " " \o Spaced(Tail(words))

\* the abbreviations of the days of the list, in the list's order, separated
\* by a comma and a space
RECURSIVE DayAbbreviations(_)
DayAbbreviations(days) ==
    IF Len(days) = 0 THEN ""
    ELSE IF Len(days) = 1 THEN dayNames[days[1].n + 1]
    ELSE dayNames[days[1].n + 1] \o ", " \o DayAbbreviations(Tail(days))

\* C16: for every validated pattern, the summary is 'Daily' / 'Every N days'
\* for daily, 'Every weekday' / 'Every N weekdays' for weekday, 'Every month
\* on day D' for monthly with interval 1 and dayOfMonth set and 'Every N
\* months' otherwise, 'Every year on {Mon} D' for yearly with interval 1 and
\* both month and dayOfMonth set and 'Every N years' otherwise.
C16_SimpleSummary ==
    LET N == Shown(raw.interval)
        one == raw.interval = Num(1)
    IN  /\ Summarized("daily") =>
              ret.s = IF one THEN "Daily" ELSE "Every " \o N \o " days"
        /\ Summarized("weekday") =>
              ret.s = IF one THEN "Every weekday" ELSE "Every " \o N \o " weekdays"
        /\ Summarized("monthly") =>
              ret.s = IF one /\ IsSet(raw.dayOfMonth)
                      THEN "Every month on day " \o ToString(raw.dayOfMonth.n)
                      ELSE "Every " \o N \o " months"
        /\ Summarized("yearly") =>
              ret.s = IF one /\ IsSet(raw.month) /\ IsSet(raw.dayOfMonth)
                      THEN "Every year on " \o monthNames[raw.month.n] \o " "
                               \o ToString(raw.dayOfMonth.n)
                      ELSE "Every " \o N \o " years"

\* a yearly summary that names the month and the day
C16_Witness ==
    /\ Summarized("yearly")
    /\ raw.month = Num(12)
    /\ ret.s = "Every year on Dec 15"

\* C17: for a weekly pattern with interval 1 and daysOfWeek set, the summary
\* is 'Daily' if and only if all seven weekdays 0..6 are present in
\* daysOfWeek; otherwise it is 'Every week on ' followed by the day
\* abbreviations in stored order joined by ', '; a weekly pattern with
\* interval N > 1 or no daysOfWeek gives 'Every N weeks'.
C17_WeeklySummary ==
    Summarized("weekly") =>
        IF raw.interval = Num(1) /\ IsSet(raw.daysOfWeek)
        THEN IF DaySet(raw.daysOfWeek) = 0..6
             THEN ret.s = "Daily"
             ELSE ret.s = "Every week on " \o DayAbbreviations(raw.daysOfWeek.a)
        ELSE ret.s = "Every " \o Shown(raw.interval) \o " weeks"

\* the words of a custom summary: 'Custom', 'every N' when N > 1, and the
\* parts that are present
CustomWords(pattern) ==
    <<"Custom">>
    \o (IF pattern.interval.k = "num" /\ pattern.interval.n > 1
        THEN <<"every " \o ToString(pattern.interval.n)>> ELSE <<>>)
    \o (IF IsSet(pattern.daysOfWeek)
        THEN <<"on " \o DayAbbreviations(pattern.daysOfWeek.a)>> ELSE <<>>)
    \o (IF IsSet(pattern.dayOfMonth)
        THEN <<"on day " \o ToString(pattern.dayOfMonth.n)>> ELSE <<>>)
    \o (IF IsSet(pattern.month) THEN <<"in " \o monthNames[pattern.month.n]>> ELSE <<>>)

NoParts(pattern) ==
    ~IsSet(pattern.daysOfWeek) /\ ~IsSet(pattern.dayOfMonth) /\ ~IsSet(pattern.month)

\* C18 as stated: for a custom pattern the summary is 'Custom', then
\* 'every N ' when interval N > 1, then the present parts 'on {day names}',
\* 'on day D', 'in {month}' in that order joined by single spaces; when none
\* of daysOfWeek, dayOfMonth and month is set, the result is exactly 'Custom'
\* for every interval.
C18_CustomAlwaysBare ==
    Summarized("custom") =>
        /\ ret.s = Spaced(CustomWords(raw))
        /\ NoParts(raw) => ret.s = "Custom"

\* C18 as amended: the summary is 'Custom', then 'every N' when N > 1, then
\* the present parts in that order, joined by single spaces; when no part is
\* set the result is exactly 'Custom' when the interval is not above 1 and
\* 'Custom every N' when it is.
C18_CustomSummary ==
    Summarized("custom") =>
        /\ ret.s = Spaced(CustomWords(raw))
        /\ NoParts(raw) =>
              ret.s = IF raw.interval.k = "num" /\ raw.interval.n > 1
                      THEN "Custom every " \o ToString(raw.interval.n) ELSE "Custom"

\* a custom summary with no part and an interval above 1
C18_Witness ==
    /\ Summarized("custom")
    /\ NoParts(raw)
    /\ raw.interval = Num(2)
    /\ ret.s = "Custom every 2"

DefaultListsOf(u) == {i \in DOMAIN lists : lists[i].userId = u /\ lists[i].isDefault}

\* the last request asked for isDefault = true and succeeded
SetDefaultSucceeded ==
    /\ op \in {"POST", "PUT"}
    /\ ret \in {Num(200), Num(201)}
    /\ request.data.isDefault = Bool(TRUE)

\* C20: after any sequence of list creations and list updates (updates that
\* change userId or set isDefault included), every user has at most one list
\* with isDefault = true, and right after a request that sets isDefault =
\* true on list L succeeds, L is the only default list of its user.
C20_SingleDefault ==
    /\ \A u \in Users : Cardinality(DefaultListsOf(u)) <= 1
    /\ SetDefaultSucceeded =>
           DefaultListsOf(lists[request.id].userId) = {request.id}

(***************************************************************************)
(* Claims about the weekday and custom types, the day-of-week search and   *)
(* the time of day                                                         *)
(***************************************************************************)
IsBusinessDay(date, z) == WeekdayOf(date, z) \in 1..5

\* C21: for every anchor and interval n, the next occurrence of a weekday
\* pattern is the first date on or after anchor + n calendar days that is
\* Monday to Friday; the result is never a Saturday or Sunday and the
\* weekend-skipping loop ends after at most 2 steps (none when that date is
\* after the pattern's endDate).
C21_Weekday ==
    Computes("weekday") =>
        LET base == PlusDays(task.date, ParsedPattern(task).interval.n)
        IN  /\ \E steps \in 0..2 :
                  /\ IsBusinessDay(PlusDays(base, steps), tz)
                  /\ \A j \in 0..(steps - 1) : ~IsBusinessDay(PlusDays(base, j), tz)
                  /\ ret = EndDateCheck(PlusDays(base, steps), ParsedPattern(task))
            /\ IsDate(ret) => IsBusinessDay(ret, tz)

\* a weekday occurrence whose date n days after the anchor is a Saturday and
\* which the loop moved to the Monday
C21_Witness ==
    /\ Computes("weekday")
    /\ IsDate(ret)
    /\ WeekdayOf(PlusDays(task.date, ParsedPattern(task).interval.n), tz) = 6
    /\ WeekdayOf(ret, tz) = 1
    /\ ret = PlusDays(task.date, ParsedPattern(task).interval.n + 2)

\* C22: for a custom pattern with non-empty daysOfWeek S the result is the
\* earliest date strictly after the anchor (1 to 7 days later) whose weekday
\* is in S; else with dayOfMonth D the result is day D of the month following
\* the anchor's month; else the result is anchor + 1 day; in all three cases
\* the interval has no effect on the result.
C22_Custom ==
    LET pattern == ParsedPattern(task)
        c == CivilFromDays(LocalDay(task.date.t, tz))
    IN  Computes("custom") =>
            IF HasDaysOfWeek(pattern)
            THEN \E i \in 1..7 :
                    /\ WeekdayOf(PlusDays(task.date, i), tz) \in DaySet(pattern.daysOfWeek)
                    /\ \A j \in 1..(i - 1) :
                          WeekdayOf(PlusDays(task.date, j), tz) \notin DaySet(pattern.daysOfWeek)
                    /\ ret = PlusDays(task.date, i)
            ELSE IF pattern.dayOfMonth # Undefined
            THEN pattern.dayOfMonth.n <= DaysInMonth(c[1], c[2])
                    => ret = OnCivil(c[1], c[2], pattern.dayOfMonth.n, task.date, tz)
            ELSE ret = PlusDays(task.date, 1)

\* C23: for every base date and every non-empty set S of weekdays in 0..6,
\* findNextDayOfWeek returns base + i days for the smallest i in 0..6 such
\* that the weekday of base + i is in S (i = 0 when the base date's weekday
\* is in S); it never returns none for a non-empty S and examines at most 7
\* days.
C23_DaySearch ==
    (op = "find" /\ Len(raw.a) > 0) =>
        /\ ret # Null
        /\ \E i \in 0..6 :
              /\ WeekdayOf(PlusDays(task.date, i), tz) \in DaySet(raw)
              /\ \A j \in 0..(i - 1) : WeekdayOf(PlusDays(task.date, j), tz) \notin DaySet(raw)
              /\ ret = PlusDays(task.date, i)
        /\ WeekdayOf(task.date, tz) \in DaySet(raw) => ret = task.date

\* a search that had to go the whole six days on
C23_Witness ==
    /\ op = "find"
    /\ Len(raw.a) = 1
    /\ ret = PlusDays(task.date, 6)

\* the hour, minute and second of the date in the zone z
TimeOfDay(date, z) == (date.t + z) % TicksPerDay

StoredLegacyString ==
    /\ op = "PUT"
    /\ ret = Num(200)
    /\ IsPlainText(request.body.recurringPattern)

\* C25: for every non-JSON string s submitted as recurringPattern to PUT
\* /api/tasks/[id], the type stored by the handler equals the type
\* parseRecurringPattern(s) yields (same case sensitivity, same fallback for
\* an unrecognized keyword). The type stored is the type the parser reads
\* from the stored column.
C25_LegacyAgreement ==
    StoredLegacyString =>
        parseRecurringPattern(task.recurringPattern).type
            = parseRecurringPattern(request.body.recurringPattern).type

(***************************************************************************)
(* Claims about a series of occurrences                                    *)
(***************************************************************************)
\* C26: for every recurring task with an anchor date and every validated
\* pattern, any date returned by getNextOccurrence is strictly later than
\* the anchor date.
C26_Progress ==
    (/\ op = "next"
     /\ task.isRecurring
     /\ task.date # Null
     /\ ret # Null) => DateGreater(ret, task.date)

\* C27: for every pattern type with an endDate, repeatedly replacing the
\* task's anchor date by the result of getNextOccurrence eventually makes
\* getNextOccurrence return none, and no occurrence produced before that is
\* later than endDate. Stated on one step of the series: every call returns
\* none or a date that is later than the anchor it was computed from and not
\* later than endDate; the dates are whole ticks, so such a series has
\* finitely many occurrences and then none.
C27_SeriesEnds ==
    [][op' = "series" =>
          \/ ret' = Null
          \/ /\ DateGreater(ret', task.date)
             /\ ~DateGreater(ret', NewDate(ParsedPattern(task).endDate))]_vars

(***************************************************************************)
(* SpecAgree: getNextOccurrence and isTaskActive on the same task, the     *)
(* second on the day of the candidate date                                 *)
(***************************************************************************)
EndedPatterns == {p \in SchedulePatterns : p.endDate # Undefined}

InitAgree ==
    /\ raw = Null
    /\ task \in [isRecurring : {TRUE},
                 date : {DateAt(t) : t \in AnchorTicks},
                 recurringPattern : {JsonText(p) : p \in EndedPatterns}]
    /\ tz \in TimeZones
    /\ now = 0
    /\ op = "init"
    /\ ret = Undefined
    /\ lists = <<>>
    /\ request = Null

\* a caller asks for the next occurrence and, when the clock reads the
\* candidate date, whether the task is active
Compare ==
    /\ op' = "compare"
    /\ now' = Candidate(task, tz).t
    /\ ret' = [next |-> getNextOccurrence(task, tz),
               active |-> Bool(isTaskActive(task, Candidate(task, tz).t, tz))]
    /\ task' = TaskAfter(task, tz)
    /\ UNCHANGED <<raw, tz, lists, request>>

NextAgree == Compare

SpecAgree == InitAgree /\ [][NextAgree]_vars

\* C28: for every recurring task whose pattern has an endDate given as a
\* calendar date, and every anchor time of day, getNextOccurrence returns the
\* candidate date d if and only if isTaskActive evaluated with today = d's
\* calendar date is true (a candidate falling on the end date itself is
\* returned).
C28_EndDateAgreement ==
    op = "compare" => ((ret.next = Candidate(task, tz)) <=> ret.active.b)

(***************************************************************************)
(* SpecClock: isTaskActive on one task as the clock advances day by day,   *)
(* for MaxClockDays days                                                   *)
(***************************************************************************)
MaxClockDays == 5

ClockStartTicks ==
    {DaysFromCivil(2024, 1, 13) * TicksPerDay + h : h \in 0..(TicksPerDay - 1)}

InitClock ==
    /\ raw = Null
    /\ task \in [isRecurring : BOOLEAN, date : {Null}, recurringPattern : ActivePatterns]
    /\ tz \in TimeZones
    /\ now \in ClockStartTicks
    /\ op = "init"
    /\ ret = Undefined
    /\ lists = <<>>
    /\ request = Null

\* a day passes and a caller applies isTaskActive to the task
NextDay ==
    /\ now < DaysFromCivil(2024, 1, 13) * TicksPerDay + MaxClockDays * TicksPerDay
    /\ now' = now + TicksPerDay
    /\ op' = "clock"
    /\ ret' = Bool(isTaskActive(task, now + TicksPerDay, tz))
    /\ UNCHANGED <<raw, task, tz, lists, request>>

NextClock == NextDay

SpecClock == InitClock /\ [][NextClock]_vars

\* the task is recurring and its stored pattern parses to one whose endDate
\* is a calendar date
HasCalendarEndDate(t) ==
    /\ t.isRecurring
    /\ Truthy(t.recurringPattern)
    /\ ParsedPattern(t) # Throw
    /\ IsIsoDate(ParsedPattern(t).endDate)

EndDay(t) ==
    LET e == ParsedPattern(t).endDate IN DaysFromCivil(e.ymd[1], e.ymd[2], e.ymd[3])

\* C29: for a fixed recurring task, as 'today' advances day by day,
\* isTaskActive never changes from false back to true; it is true on every
\* day up to and including the endDate and false on every later day.
C29_ActiveMonotone ==
    [][op' = "clock" =>
          /\ ret = Bool(FALSE) => ret' = Bool(FALSE)
          /\ HasCalendarEndDate(task) =>
                 (ret'.b <=> LocalDay(now', tz) <= EndDay(task))]_vars

(***************************************************************************)
(* SpecUnknownType: the summary of the parsed pattern and the next         *)
(* occurrence for stored patterns of every shape of type                   *)
(***************************************************************************)
\* the type property as written: a keyword, a word that is no keyword, a
\* number, null, absent
WrittenTypes == TypeInputs \cup {Str(""), Str("DAILY"), Num(5), Null}

UnknownTypeObjects ==
    {Obj(t, i, ds, d, Undefined, e) :
        t \in WrittenTypes, i \in {Undefined, Num(2)},
        ds \in {Undefined, Arr(<<Num(1)>>)}, d \in {Undefined, Num(15)},
        e \in {Undefined, IsoDate(2024, 12, 1)}}

UnknownTypeInputs ==
    UnknownTypeObjects \cup {Null}
        \cup {JsonText(v) : v \in UnknownTypeObjects \cup JsonScalars}
        \cup LegacyStrings \cup {Str("DAILY")}

InitUnknownType ==
    /\ raw \in UnknownTypeInputs
    /\ task \in [isRecurring : {TRUE},
                 date : {DateAt(t) : t \in AnchorTicks},
                 recurringPattern : {raw}]
    /\ tz \in TimeZones
    /\ now = 0
    /\ op = "init"
    /\ ret = Undefined
    /\ lists = <<>>
    /\ request = Null

\* a caller applies getRecurrenceSummary to parseRecurringPattern(raw)
SummarizeParsed ==
    /\ op' = "summary"
    /\ ret' = IF parseRecurringPattern(raw) = Throw THEN Throw
              ELSE Str(getRecurrenceSummary(parseRecurringPattern(raw)))
    /\ UNCHANGED <<raw, task, tz, now, lists, request>>

NextUnknownType == SummarizeParsed \/ NextOccurrence

SpecUnknownType == InitUnknownType /\ [][NextUnknownType]_vars

\* the type as the raw pattern writes it
WrittenType(x) ==
    IF IsPlainText(x) THEN x
    ELSE IF IsJsonText(x) THEN Get(x.json, "type")
    ELSE Get(x, "type")

IsKeyword(t) == IsPlainText(t) /\ t.s \in validTypes

\* the interval the raw pattern writes, 1 when it writes none
WrittenInterval(x) ==
    LET v == IF IsJsonText(x) THEN x.json ELSE x
    IN  IF Get(v, "interval") = Undefined THEN 1 ELSE Get(v, "interval").n

\* C30: for every raw pattern x, getRecurrenceSummary(parseRecurringPattern(
\* x)) is never 'Recurring', and for a recurring task with an anchor date
\* getNextOccurrence never returns none because of an unrecognized type: an
\* unrecognized or missing type is computed as daily (a null stored pattern
\* gives anchor + 1 day).
C30_NoUnknownType ==
    /\ (op = "summary" /\ ret # Throw) => ret.s # "Recurring"
    /\ (op = "next" /\ ~IsKeyword(WrittenType(raw))) =>
           /\ ret = EndDateCheck(PlusDays(task.date, WrittenInterval(raw)),
                                 ParsedPattern(task))
           /\ ParsedPattern(task).endDate = Undefined => IsDate(ret)
    /\ (op = "next" /\ raw = Null) => ret = PlusDays(task.date, 1)

\* a stored pattern whose type is a word that is no keyword, summarised as
\* daily
C30_Witness ==
    /\ op = "summary"
    /\ WrittenType(raw) = Str("DAILY")
    /\ ret = Str("Daily")

====
